---- MODULE Spec2Model ----
(***************************************************************************)
(* Container Tracking Demo backend (src/api/index.py).                     *)
(*                                                                         *)
(* A stateless FastAPI application: every request re-reads the shipment    *)
(* snapshot (data/ships.json), enriches each record and answers.  The      *)
(* state of the model is the snapshot, the last request and its response.  *)
(*                                                                         *)
(* Strings are sequences of one-character strings.  Hours are integers in  *)
(* hundredths of an hour, speeds in tenths of a knot, wind in whole m/s,   *)
(* and the input grids are chosen so that every division of ml_eta is      *)
(* exact; the risk score is an exact fraction num/den.  The one place      *)
(* where binary floating point decides a result, the on-time percentage    *)
(* of the fleet summary, is computed in IEEE-754 double arithmetic.        *)
(***************************************************************************)
EXTENDS Integers, Sequences, FiniteSets, TLC

VARIABLES items, req, resp

vars == <<items, req, resp>>

\* ------------------------------------------------------------- bounds

MaxShips == 2

BigLen == 11

MaxFleet == 40

\* ------------------------------------------------------------ strings

LowerCase == <<"a","b","c","d","e","f","g","h","i","j","k","l","m",
               "n","o","p","q","r","s","t","u","v","w","x","y","z">>

UpperCase == <<"A","B","C","D","E","F","G","H","I","J","K","L","M",
               "N","O","P","Q","R","S","T","U","V","W","X","Y","Z">>

Digits == <<"0","1","2","3","4","5","6","7","8","9">>

Range(f) == {f[i] : i \in DOMAIN f}

Min(a, b) == IF a <= b THEN a ELSE b

Max(a, b) == IF a >= b THEN a ELSE b

\* str.upper() / str.lower() on one ASCII character
upper_char(c) ==
  IF c \in Range(LowerCase)
    THEN UpperCase[CHOOSE i \in 1..26 : LowerCase[i] = c]
    ELSE c

lower_char(c) ==
  IF c \in Range(UpperCase)
    THEN LowerCase[CHOOSE i \in 1..26 : UpperCase[i] = c]
    ELSE c

upper(s) == [i \in 1..Len(s) |-> upper_char(s[i])]

lower(s) == [i \in 1..Len(s) |-> lower_char(s[i])]

\* str.strip(): leading and trailing whitespace removed
IsSpace(c) == c = " "

strip(s) ==
  LET keep == {i \in 1..Len(s) : ~IsSpace(s[i])}
  IN  IF keep = {} THEN <<>>
      ELSE LET lo == CHOOSE i \in keep : \A j \in keep : i <= j
               hi == CHOOSE i \in keep : \A j \in keep : i >= j
           IN  SubSeq(s, lo, hi)

\* a in b  (Python substring test)
IsSubstr(a, b) ==
  \E i \in 0..(Len(b) - Len(a)) : SubSeq(b, i + 1, i + Len(a)) = a

\* b.startswith(a)
StartsWith(b, a) == Len(a) <= Len(b) /\ SubSeq(b, 1, Len(a)) = a

\* the character class [A-Z0-9]
IsAZ09(c) == c \in Range(UpperCase) \/ c \in Range(Digits)

KeyLen == 10

canon(s) == SelectSeq(upper(s), IsAZ09)

key10(s) ==
  LET c == canon(s)
  IN  IF Len(c) >= KeyLen THEN SubSeq(c, 1, KeyLen) ELSE c

\* ------------------------------------------- IEEE-754 double arithmetic
\* A positive double is [m |-> its 53 significand bits, most significant
\* first (m[1] = 1), e |-> the binary exponent of the last bit]: its value
\* is (m read as an integer) * 2^e.  Only on/n*100 and round() need it.

MantBits == 53

LimbBits == 13

RECURSIVE IntToBits(_)
IntToBits(k) == IF k = 0 THEN <<>> ELSE Append(IntToBits(k \div 2), k % 2)

RECURSIVE BitsToInt(_)
BitsToInt(b) ==
  IF b = <<>> THEN 0 ELSE 2 * BitsToInt(SubSeq(b, 1, Len(b) - 1)) + b[Len(b)]

RECURSIVE Pow2(_)
Pow2(k) == IF k = 0 THEN 1 ELSE 2 * Pow2(k - 1)

AllZero(b) == \A i \in 1..Len(b) : b[i] = 0

\* b + 1 on a bit string that is not all ones
IncBits(b) ==
  LET z == CHOOSE i \in 1..Len(b) :
             b[i] = 0 /\ \A j \in (i + 1)..Len(b) : b[j] = 1
  IN  [i \in 1..Len(b) |-> IF i < z THEN b[i] ELSE IF i = z THEN 1 ELSE 0]

\* round to nearest, ties to even: `keep` are the bits kept, e the exponent
\* of the last of them, `up` whether the discarded part is above one half,
\* `tie` whether it is exactly one half
RoundNearestEven(keep, e, up, tie) ==
  IF up \/ (tie /\ keep[Len(keep)] = 1)
    THEN IF \A i \in 1..Len(keep) : keep[i] = 1
           THEN [m |-> <<1>> \o [i \in 1..(Len(keep) - 1) |-> 0], e |-> e + 1]
           ELSE [m |-> IncBits(keep), e |-> e]
    ELSE [m |-> keep, e |-> e]

\* 2^j mod n for 0 <= j < 80 and 0 < n <= 2^15
PowMod2(j, n) ==
  LET t  == 65536 % n
      t2 == (t * t) % n
      q  == j \div 16
      tq == IF q = 0 THEN 1 % n
            ELSE IF q = 1 THEN t
            ELSE IF q = 2 THEN t2
            ELSE IF q = 3 THEN (t2 * t) % n
            ELSE (t2 * t2) % n
  IN  (tq * (Pow2(j % 16) % n)) % n

\* the number of doublings that bring a (0 < a < n) to at least n
RECURSIVE LeadShift(_, _)
LeadShift(a, n) == IF a >= n THEN 0 ELSE 1 + LeadShift(2 * a, n)

\* a / n for integers 0 < a and 0 < n <= 2^15: Python's true division,
\* correctly rounded.  After the integer part (or the first significant
\* bit), bit k of the quotient is decided by the remainder r0 * 2^(k-1) mod n.
float_div(a, n) ==
  LET q    == a \div n
      qb   == IntToBits(q)
      p    == IF q > 0 THEN 0 ELSE LeadShift(a, n) - 1
      r0   == IF q > 0 THEN a % n ELSE a * Pow2(p)
      need == MantBits - Len(qb)
      R(j) == (r0 * PowMod2(j, n)) % n
      bits == qb \o [k \in 1..need |-> IF 2 * R(k - 1) >= n THEN 1 ELSE 0]
      rem  == R(need)
  IN  RoundNearestEven(bits, 0 - (p + need), 2 * rem > n, 2 * rem = n)

\* a bit string as limbs of LimbBits bits, the least significant limb first
ToLimbs(b) ==
  LET nl == (Len(b) + LimbBits - 1) \div LimbBits
  IN  [i \in 1..nl |->
         BitsToInt(SubSeq(b, Max(1, Len(b) - i * LimbBits + 1),
                          Len(b) - (i - 1) * LimbBits))]

PadBits(b, w) == [i \in 1..(w - Len(b)) |-> 0] \o b

\* limbs * k with carry, for a small integer k > 0: the product's bits
RECURSIVE MulLimbs(_, _, _, _, _)
MulLimbs(l, i, k, carry, acc) ==
  IF i > Len(l) THEN IntToBits(carry) \o acc
  ELSE LET v == l[i] * k + carry
       IN  MulLimbs(l, i + 1, k, v \div Pow2(LimbBits),
                    PadBits(IntToBits(v % Pow2(LimbBits)), LimbBits) \o acc)

\* x * k for a double x and a small integer k > 0, correctly rounded
float_mul_int(x, k) ==
  LET raw  == MulLimbs(ToLimbs(x.m), 1, k, 0, <<>>)
      lead == CHOOSE i \in 1..Len(raw) : raw[i] = 1 /\ \A j \in 1..(i - 1) : raw[j] = 0
      p    == SubSeq(raw, lead, Len(raw))
      drop == Len(p) - MantBits
      keep == SubSeq(p, 1, MantBits)
      rest == SubSeq(p, MantBits + 1, Len(p))
  IN  IF drop = 0 THEN [m |-> p, e |-> x.e]
      ELSE RoundNearestEven(keep, x.e + drop,
                            rest[1] = 1 /\ ~AllZero(Tail(rest)),
                            rest[1] = 1 /\ AllZero(Tail(rest)))

\* Python's round(x) of a double 0 < x < 2^53: nearest integer, ties to even
float_round(x) ==
  LET f    == 0 - x.e
      pad  == [i \in 1..Max(f + 1 - MantBits, 0) |-> 0] \o x.m
      ipart == BitsToInt(SubSeq(pad, 1, Len(pad) - f))
      frac == SubSeq(pad, Len(pad) - f + 1, Len(pad))
  IN  IF f <= 0 THEN BitsToInt(x.m) * Pow2(0 - f)
      ELSE IF frac[1] = 0 THEN ipart
      ELSE IF ~AllZero(Tail(frac)) THEN ipart + 1
      ELSE IF ipart % 2 = 0 THEN ipart ELSE ipart + 1

\* round(on / n * 100) as the interpreter evaluates it (line 257); 0 <= on <= n
pct_on_time(on, n) ==
  IF on = 0 THEN 0 ELSE float_round(float_mul_int(float_div(on, n), 100))

\* the nearest integer to a/b (b > 0, a >= 0) in exact arithmetic, ties to even
ExactRound(a, b) ==
  LET fl == a \div b
      r2 == 2 * (a % b)
  IN  IF r2 < b THEN fl
      ELSE IF r2 > b THEN fl + 1
      ELSE IF fl % 2 = 0 THEN fl ELSE fl + 1

\* ------------------------------------------------- ETA model and risk
\* data/eta_model.json, in hundredths (distance_nm: hundredths of an hour
\* per nautical mile)
eta_model ==
  [intercept |-> 200, distance_nm |-> 1, inv_speed |-> 500, wind |-> 10,
   congestion |-> 100, sigma_hours |-> 250]

\* data/region_risk.json, base risk in hundredths
region_risk == [r \in {"Indian Ocean", "Red Sea"} |->
                  IF r = "Red Sea" THEN 80 ELSE 30]

DefaultBaseRisk == 25

WindFallback == 5

CongestionIdx == 25

DefaultPlannedHrs == 2400

DefaultRegion == "Indian Ocean"

\* distance_nm in whole nautical miles, speed_kts in tenths of a knot,
\* wind_mps in whole m/s, congestion_idx in hundredths; hours in hundredths
ml_eta(distance_nm, speed_kts, wind_mps, congestion_idx) ==
  LET m     == eta_model
      hours == m.intercept
               + m.distance_nm * distance_nm
               + (m.inv_speed * 10) \div Max(speed_kts, 1)
               + m.wind * wind_mps
               + (m.congestion * congestion_idx) \div 100
      half  == (164 * m.sigma_hours) \div 100
  IN  [hours |-> hours, ci_90 |-> <<hours - half, hours + half>>]

\* the band of a score num/den (den > 0)
band_of(num, den) ==
  IF 100 * num >= 66 * den THEN "HIGH"
  ELSE IF 100 * num >= 33 * den THEN "MED"
  ELSE "LOW"

\* the score without its cap at 1.0
risk_band_uncapped(pred_hours, planned_hours, wind_mps, region) ==
  LET base == IF region \in DOMAIN region_risk THEN region_risk[region]
              ELSE DefaultBaseRisk
      d    == Max(pred_hours - planned_hours, 0)
      P    == Max(planned_hours, 100)
      wm   == Min(wind_mps, 15)
      den  == 500 * P
      num  == 250 * d + 10 * wm * P + base * P
  IN  [score |-> [num |-> num, den |-> den], band |-> band_of(num, den)]

\* pred_hours, planned_hours in hundredths, wind_mps in whole m/s; the score
\* is the fraction num/den
risk_band(pred_hours, planned_hours, wind_mps, region) ==
  LET base == IF region \in DOMAIN region_risk THEN region_risk[region]
              ELSE DefaultBaseRisk
      d    == Max(pred_hours - planned_hours, 0)
      P    == Max(planned_hours, 100)
      wm   == Min(wind_mps, 15)
      \* 0.5*d/P + 0.3*wm/15 + 0.2*base/100 over the denominator 500*P
      den  == 500 * P
      num  == Min(den, 250 * d + 10 * wm * P + base * P)
  IN  [score |-> [num |-> num, den |-> den], band |-> band_of(num, den)]

\* ---------------------------------------------------------- enrichment
\* A shipment record carries distNm, the great-circle distance of its
\* position to its waypoint in nautical miles (haversine_km / KM_PER_NM),
\* instead of the two coordinates; etaUtc (now + predHours) is left out.
enrich(it) ==
  LET wind == WindFallback
      pred == ml_eta(it.distNm, it.speedKts, wind, CongestionIdx)
      r    == risk_band(pred.hours, it.etaPlannedHrs, wind,
                        IF "region" \in DOMAIN it THEN it.region
                        ELSE DefaultRegion)
  IN  [id |-> it.id, vessel |-> it.vessel, containers |-> it.containers,
       distNm |-> it.distNm, speedKts |-> it.speedKts,
       etaPlannedHrs |-> it.etaPlannedHrs,
       region |-> IF "region" \in DOMAIN it THEN it.region ELSE "-",
       metrics |-> [distNm    |-> it.distNm,
                    predHours |-> pred.hours,
                    ci90      |-> pred.ci_90,
                    onTime    |-> 10 * pred.hours <= 11 * it.etaPlannedHrs,
                    risk      |-> r.band,
                    riskScore |-> r.score]]

load_items_enriched == [i \in DOMAIN items |-> enrich(items[i])]

\* a value in hundredths printed with one decimal ("%.1f"), in tenths
Fmt1(h) == IF h >= 0 THEN ExactRound(h, 10) ELSE 0 - ExactRound(0 - h, 10)

\* the sentence of one shipment, as the values it prints
item_summary(it) ==
  LET m == it.metrics
  IN  [text      |-> "item",
       vessel    |-> it.vessel,
       id        |-> it.id,
       ontxt     |-> IF m.onTime THEN "on-time" ELSE "delayed",
       predHours |-> Fmt1(m.predHours),
       halfWidth |-> Fmt1(IF m.ci90[2] >= m.predHours
                          THEN m.ci90[2] - m.predHours
                          ELSE m.predHours - m.ci90[2]),
       risk      |-> m.risk,
       riskScore |-> ExactRound(100 * m.riskScore.num, m.riskScore.den),
       distNm    |-> m.distNm,
       speedKts  |-> it.speedKts,
       region    |-> it.region]

\* ---------------------------------------------------------- resolution

SuggestMinLen == 4

MaxSuggestions == 10

MaxAlternates == 10

\* the exact tier without its container-code half
exact_match_id_only(q, s) == IsSubstr(lower(q), lower(s.id))

\* the exact tier refusing an empty canonical query
exact_match_nonempty(q, s) ==
  /\ q # <<>>
  /\ \/ IsSubstr(lower(q), lower(s.id))
     \/ \E k \in DOMAIN s.containers : IsSubstr(q, canon(s.containers[k]))

\* line 147 and line 229: the canonical query against the raw identifier,
\* both lowercased, or against a canonical container code
exact_match(q, s) ==
  \/ IsSubstr(lower(q), lower(s.id))
  \/ \E k \in DOMAIN s.containers : IsSubstr(q, canon(s.containers[k]))

\* the key10 tier looking at the first container code only
key10_match_first_code(q10, s) ==
  key10(s.containers[1]) = q10 /\ Len(q10) = KeyLen

\* lines 153-154 and line 232
key10_match(q10, s) ==
  \E k \in DOMAIN s.containers :
     key10(s.containers[k]) = q10 /\ Len(q10) = KeyLen

\* line 165
suggest_match(q, s) ==
  \/ IsSubstr(q, canon(s.id))
  \/ \E k \in DOMAIN s.containers : StartsWith(canon(s.containers[k]), q)

\* the first index of a non-empty set of indices (a for loop that returns)
FirstOf(I) == CHOOSE i \in I : \A j \in I : i <= j

\* line 158, the comprehension: every container code of the collected
\* shipments whose key10 is q10, as a bag (code -> number of occurrences)
matching_codes(exact10, q10) ==
  LET at == UNION {{<<i, k>> : k \in {k \in DOMAIN exact10[i].containers :
                                         key10(exact10[i].containers[k]) = q10}} :
                      i \in DOMAIN exact10}
  IN  [c \in {exact10[x[1]].containers[x[2]] : x \in at} |->
         Cardinality({x \in at : exact10[x[1]].containers[x[2]] = c})]

\* the alternates kept as a list, a code once per shipment that carries it
alternates_not_deduped(codes) ==
  {[c \in T |-> codes[c]] :
     T \in {U \in SUBSET (DOMAIN codes) :
              Cardinality(U) = Min(MaxAlternates, Cardinality(DOMAIN codes))}}

\* list({...})[:10]: a set holds each code once and its order is arbitrary,
\* so any min(10, |set|) of the codes may be kept; the list is held as a bag
alternates_of(codes) ==
  {[c \in T |-> 1] :
     T \in {U \in SUBSET (DOMAIN codes) :
              Cardinality(U) = Min(MaxAlternates, Cardinality(DOMAIN codes))}}

\* the suggestions capped but not deduplicated
RECURSIVE cap_only(_, _, _, _)
cap_only(sugg, i, seen, uniq) ==
  IF i > Len(sugg) \/ Len(uniq) >= MaxSuggestions THEN uniq
  ELSE cap_only(sugg, i + 1, seen, Append(uniq, sugg[i]))

\* lines 169-173: dedupe by id, first occurrence wins, stop at 10
RECURSIVE dedupe_cap(_, _, _, _)
dedupe_cap(sugg, i, seen, uniq) ==
  IF i > Len(sugg) THEN uniq
  ELSE LET r  == sugg[i]
           u2 == IF r.id \in seen THEN uniq ELSE Append(uniq, r)
       IN  IF Len(u2) >= MaxSuggestions THEN u2
           ELSE dedupe_cap(sugg, i + 1, seen \cup {r.id}, u2)

stub(s) == [id |-> s.id, vessel |-> s.vessel, sample |-> s.containers[1]]

\* GET /api/container?cn=...: the set of responses the handler can give
api_container(cn) ==
  LET q_raw   == strip(cn)
      q       == canon(q_raw)
      q10     == key10(q_raw)
      its     == load_items_enriched
      hits    == {i \in DOMAIN its : exact_match(q, its[i])}
      exact10 == SelectSeq(its, LAMBDA s : key10_match(q10, s))
      sugg    == IF Len(q) >= SuggestMinLen
                   THEN LET m == SelectSeq(its, LAMBDA s : suggest_match(q, s))
                        IN  [i \in DOMAIN m |-> stub(m[i])]
                   ELSE <<>>
  IN  IF hits # {}
        THEN {[status |-> 200, item |-> its[FirstOf(hits)],
               summary |-> item_summary(its[FirstOf(hits)]),
               matchedBy |-> "exact"]}
      ELSE IF exact10 # <<>>
        THEN {[status |-> 200, item |-> exact10[1],
               summary |-> item_summary(exact10[1]),
               matchedBy |-> "key10", alternates |-> a] :
                 a \in alternates_of(matching_codes(exact10, q10))}
      ELSE IF sugg # <<>>
        THEN {[status |-> 404, error |-> "No exact match. Suggestions:",
               suggestions |-> dedupe_cap(sugg, 1, {}, <<>>)]}
      ELSE {[status |-> 404, error |-> "Not found"]}

\* ------------------------------------------------------------- summary

RECURSIVE SumRange(_, _, _)
SumRange(f, lo, hi) ==
  IF lo > hi THEN 0
  ELSE IF lo = hi THEN f[lo]
  ELSE LET mid == (lo + hi) \div 2
       IN  SumRange(f, lo, mid) + SumRange(f, mid + 1, hi)

\* lines 251-261: the fleet sentence, as the values it prints.  max() of an
\* empty sequence raises (ValueError) before any division is reached.
aggregate(its) ==
  LET n     == Len(its)
      on    == Cardinality({i \in 1..n : its[i].metrics.onTime})
      high  == Cardinality({i \in 1..n : its[i].metrics.risk = "HIGH"})
      total == SumRange([i \in 1..n |-> its[i].metrics.predHours], 1, n)
      \* max(its, key=...) keeps the first of the largest
      w     == FirstOf({i \in 1..n : \A j \in 1..n :
                          its[j].metrics.predHours <= its[i].metrics.predHours})
  IN  IF n = 0 THEN [status |-> 500, error |-> "ValueError"]
      ELSE [status |-> 200,
            summary |-> [text        |-> "aggregate",
                         n           |-> n,
                         on          |-> on,
                         pct         |-> pct_on_time(on, n),
                         avg         |-> ExactRound(total, 10 * Max(n, 1)),
                         high        |-> high,
                         worstVessel |-> its[w].vessel,
                         worstId     |-> its[w].id,
                         worstHours  |-> Fmt1(its[w].metrics.predHours)],
            count |-> n, mode |-> "filter-or-fleet"]

\* line 248: `if not n`
no_shipments(n) == n = 0

\* a query parameter that is present and not the empty string (`if cn:`)
Given(p, name) == name \in DOMAIN p /\ p[name] # <<>>

\* lines 239-243
filter_match(ql, it) ==
  \/ IsSubstr(ql, lower(it.id))
  \/ IsSubstr(ql, lower(it.vessel))
  \/ \E k \in DOMAIN it.containers : IsSubstr(ql, lower(it.containers[k]))

\* the per-item summary without its key10 pass
summary_single_no_key10(cn) ==
  LET its  == load_items_enriched
      hits == {i \in DOMAIN its : exact_match(canon(cn), its[i])}
  IN  IF hits # {}
        THEN [status |-> 200, summary |-> item_summary(its[FirstOf(hits)]),
              count |-> 1, mode |-> "single"]
      ELSE [status |-> 200,
            summary |-> [text |-> "No shipment matched that container."],
            count |-> 0, mode |-> "single"]

\* lines 225-234: the per-item summary of POST /api/summary?cn=...
summary_single(cn) ==
  LET qq    == canon(cn)
      qq10  == key10(cn)
      its   == load_items_enriched
      hits  == {i \in DOMAIN its : exact_match(qq, its[i])}
      hits10 == {i \in DOMAIN its : key10_match(qq10, its[i])}
  IN  IF hits # {}
        THEN [status |-> 200, summary |-> item_summary(its[FirstOf(hits)]),
              count |-> 1, mode |-> "single"]
      ELSE IF hits10 # {}
        THEN [status |-> 200, summary |-> item_summary(its[FirstOf(hits10)]),
              count |-> 1, mode |-> "single-key10"]
      ELSE [status |-> 200,
            summary |-> [text |-> "No shipment matched that container."],
            count |-> 0, mode |-> "single"]

\* POST /api/summary with the optional query parameters cn and q
summary(p) ==
  LET its == load_items_enriched
      sel == IF Given(p, "q")
               THEN SelectSeq(its, LAMBDA it : filter_match(lower(p.q), it))
               ELSE its
  IN  IF Given(p, "cn") THEN summary_single(p.cn)
      ELSE IF no_shipments(Len(sel))
        THEN [status |-> 200,
              summary |-> [text |-> "No shipments matched your filter."],
              count |-> 0, mode |-> "filter"]
      ELSE aggregate(sel)

\* --------------------------------------------------------- predict-eta
\* What open_meteo(lat, lon) can end in: a JSON body (with or without
\* "current", with or without "wind_speed_10m", either of them null), an
\* HTTP error status (raise_for_status) or a transport error or timeout.
\* The wind read from it is a number [isnum |-> TRUE, val |-> v] or None.

NoneValue == [isnum |-> FALSE]

Number(v) == [isnum |-> TRUE, val |-> v]

\* lines 204-207
live_wind(weather) ==
  IF weather.kind # "body" THEN Number(WindFallback)          \* except Exception
  ELSE IF weather.current = "missing" THEN Number(WindFallback) \* {}.get(.., 5.0)
  ELSE IF weather.current = "null" THEN Number(WindFallback)    \* AttributeError
  ELSE IF weather.wind = "missing" THEN Number(WindFallback)
  ELSE IF weather.wind = "null" THEN NoneValue
  ELSE Number(weather.value)

\* POST /api/predict-eta; the payload carries distNm for the two coordinates
predict_eta(payload, weather) ==
  LET planned == IF "etaPlannedHrs" \in DOMAIN payload
                   THEN payload.etaPlannedHrs ELSE DefaultPlannedHrs
      region  == IF "region" \in DOMAIN payload
                   THEN payload.region ELSE DefaultRegion
      w       == live_wind(weather)
      pred    == ml_eta(payload.distNm, payload.speedKts, w.val, CongestionIdx)
  IN  IF ~w.isnum
        THEN [status |-> 500, error |-> "TypeError"]
        ELSE [status |-> 200, distanceNm |-> payload.distNm, windMps |-> w,
              predHours |-> pred.hours, ci90 |-> pred.ci_90,
              risk |-> risk_band(pred.hours, planned, w.val, region)]

\* -------------------------------------------------------------- inputs

\* container codes: ten characters of owner code and serial, then a check digit
Pfx == <<"M","S","C","U","1","3","0","1","0","0">>

CodeA == Pfx \o <<"3">>

CodeB == Pfx \o <<"7">>

CodeC == <<"T","G","H","U","9","9","0","0","1","1","2">>

CodeD == <<"m","s","c","u"," ","1","3","0","1","0","0","-","5">>

CodeShort == <<"A","B","1","2">>

ContainerLists == {<<CodeA>>, <<CodeC, CodeB>>, <<CodeD>>, <<CodeShort>>}

Ids == <<<<"S","H","P","-","0","0","1">>,
         <<"S","h","p","-","0","0","2">>,
         <<"V","7">>>>

Vessels == <<<<"E","v","e","r"," ","A">>,
             <<"M","S","C"," ","B">>,
             <<"E","v","e","r"," ","C">>>>

\* per shipment identifier: distNm, speedKts (tenths of a knot),
\* etaPlannedHrs (hundredths); the first and the third are predicted the
\* same hours, the second stands still
Profiles == <<<<1000, 200, 4800>>, <<5000, 0, 2400>>, <<1000, 200, 900>>>>

\* the records ships.json can hold; a record need not have a region
ShipPool ==
  {[id |-> Ids[1], vessel |-> Vessels[1], containers |-> c,
    distNm |-> Profiles[1][1], speedKts |-> Profiles[1][2],
    etaPlannedHrs |-> Profiles[1][3], region |-> "Indian Ocean"] :
      c \in ContainerLists}
  \cup
  {[id |-> Ids[2], vessel |-> Vessels[2], containers |-> c,
    distNm |-> Profiles[2][1], speedKts |-> Profiles[2][2],
    etaPlannedHrs |-> Profiles[2][3], region |-> "Red Sea"] :
      c \in ContainerLists}
  \cup
  {[id |-> Ids[3], vessel |-> Vessels[3], containers |-> c,
    distNm |-> Profiles[3][1], speedKts |-> Profiles[3][2],
    etaPlannedHrs |-> Profiles[3][3]] :
      c \in ContainerLists}

SmallFleets == UNION {[1..n -> ShipPool] : n \in 0..MaxShips}

CapChars == Digits \o <<"A","B","C">>

\* BigLen shipments whose canonical identifiers all start with SHP0
SuggestFleet ==
  [i \in 1..BigLen |->
     [id |-> <<"S","H","P","-","0">> \o <<CapChars[i]>>,
      vessel |-> Vessels[1], containers |-> <<CodeC>>,
      distNm |-> 1000, speedKts |-> 200, etaPlannedHrs |-> 4800]]

\* one shipment with BigLen container codes that share their first ten characters
AlternatesFleet ==
  <<[id |-> Ids[3], vessel |-> Vessels[3],
     containers |-> [i \in 1..BigLen |-> Pfx \o <<CapChars[i]>>],
     distNm |-> 1000, speedKts |-> 200, etaPlannedHrs |-> 4800]>>

\* n shipments, the first `on` of them on time
MixFleet(n, on) ==
  [i \in 1..n |->
     [id |-> Ids[3] \o [k \in 1..Len(IntToBits(i)) |-> Digits[IntToBits(i)[k] + 1]],
      vessel |-> Vessels[3],
      containers |-> <<CodeC>>,
      distNm |-> IF i <= on THEN 1000 ELSE 5000,
      speedKts |-> 200, etaPlannedHrs |-> 2400]]

CnPool ==
  {<<>>, <<" ">>, <<"-","-">>,
   <<"1","3","0","1","0","0","3">>,
   Pfx, CodeA, CodeB, Pfx \o <<"Z">>,
   <<" ","m","s","c","u","-","1","3","0","1","0","0","-","9"," ">>,
   <<"S","H","P","-","0","0","1">>,
   <<"s","h","p">>, <<"S","H","P","0">>, <<"P","0","0">>,
   <<"a","b","1">>, <<"Z","Z","Z","Z">>}

QPool == {<<>>, <<"S","H","P">>, <<"e","v","e","r">>, <<"M","S","C","U">>,
          <<"Z","Z","Z","Z">>}

SummaryParams ==
  {[cn |-> c] : c \in CnPool}
  \cup {[q |-> f] : f \in QPool}
  \cup {[cn |-> c, q |-> f] : c \in {<<>>, CodeA}, f \in {<<"S","H","P">>}}
  \cup {<<>>}

\* POST /api/predict-eta payloads and the outcomes of the weather call
Payloads ==
  {[distNm |-> d, speedKts |-> v] : d \in {1000, 5000}, v \in {0, 200}}
  \cup
  {[distNm |-> d, speedKts |-> v, etaPlannedHrs |-> h, region |-> r] :
     d \in {1000, 5000}, v \in {0, 200}, h \in {0, 900, 4800},
     r \in {"Red Sea", "Atlantis"}}

Winds == {0, 5, 12, 20}

Weathers ==
  {[kind |-> "body", current |-> "object", wind |-> "number", value |-> w] :
     w \in Winds}
  \cup
  {[kind |-> "body", current |-> "object", wind |-> "missing"],
   [kind |-> "body", current |-> "object", wind |-> "null"],
   [kind |-> "body", current |-> "missing"],
   [kind |-> "body", current |-> "null"],
   [kind |-> "http_error"],
   [kind |-> "timeout"]}

\* arguments of risk_band: hours in hundredths, wind in m/s, a region name
RiskArgs ==
  {<<pr, pl, w, r>> : pr \in {0 - 100, 1300, 1400, 3900, 10275},
                      pl \in {0 - 500, 0, 50, 1000, 2500, 4800},
                      w \in {0, 5, 15, 20},
                      r \in {"Indian Ocean", "Red Sea", "Atlantis"}}

NoRequest == [op |-> "none"]

NoResponse == [status |-> 0]

Idle == req = NoRequest

Init ==
  /\ items \in SmallFleets \cup {SuggestFleet, AlternatesFleet}
  /\ req = NoRequest
  /\ resp = NoResponse

ApiContainer ==
  \E cn \in CnPool :
    /\ Idle
    /\ req' = [op |-> "container", cn |-> cn]
    /\ resp' \in api_container(cn)
    /\ UNCHANGED items

Summary ==
  \E p \in SummaryParams :
    /\ Idle
    /\ req' = [op |-> "summary", params |-> p]
    /\ resp' = summary(p)
    /\ UNCHANGED items

PredictEta ==
  \E payload \in Payloads, weather \in Weathers :
    /\ Idle
    /\ req' = [op |-> "predict-eta", payload |-> payload, weather |-> weather]
    /\ resp' = predict_eta(payload, weather)
    /\ UNCHANGED items

RiskBand ==
  \E a \in RiskArgs :
    /\ Idle
    /\ req' = [op |-> "risk_band", pred_hours |-> a[1], planned_hours |-> a[2],
               wind_mps |-> a[3], region |-> a[4]]
    /\ resp' = risk_band(a[1], a[2], a[3], a[4])
    /\ UNCHANGED items

\* the response is sent; nothing of the request outlives it
Reply ==
  /\ ~Idle
  /\ req' = NoRequest
  /\ resp' = NoResponse
  /\ UNCHANGED items

Next == ApiContainer \/ Summary \/ Reply

Spec == Init /\ [][Next]_vars

\* the ETA and risk computations, which read no shipment
InitEta ==
  /\ items = <<>>
  /\ req = NoRequest
  /\ resp = NoResponse

NextEta == PredictEta \/ RiskBand \/ Reply

SpecEta == InitEta /\ [][NextEta]_vars

\* the fleet summary over fleets of up to MaxFleet shipments
InitFleet ==
  /\ items \in {MixFleet(n, on) : <<n, on>> \in
                  {<<n, on>> \in (0..MaxFleet) \X (0..MaxFleet) : on <= n}}
  /\ req = NoRequest
  /\ resp = NoResponse

FleetSummary ==
  /\ Idle
  /\ req' = [op |-> "summary", params |-> <<>>]
  /\ resp' = summary(<<>>)
  /\ UNCHANGED items

NextFleet == FleetSummary \/ Reply

SpecFleet == InitFleet /\ [][NextFleet]_vars

\* ================================================================ claims

Its == load_items_enriched

IsContainer == req.op = "container"

IsSummaryCn == req.op = "summary" /\ Given(req.params, "cn")

\* the container query of the request in progress, its canonical form and
\* its key10 (canon drops the blanks strip() drops)
Cn == IF IsContainer THEN strip(req.cn) ELSE req.params.cn

Q == canon(Cn)

Q10 == key10(Cn)

Owns10(s, k10) == \E k \in DOMAIN s.containers : key10(s.containers[k]) = k10

\* the shipments the exact tier of the handler accepts: the canonical query,
\* lowercased, in the lowercased identifier as stored, or the canonical
\* query in a canonical container code
ExactHits ==
  {i \in DOMAIN Its :
     \/ IsSubstr(lower(Q), lower(Its[i].id))
     \/ \E k \in DOMAIN Its[i].containers : IsSubstr(Q, canon(Its[i].containers[k]))}

\* the shipments the claim C1 names: the query as typed (trimmed), compared
\* case-insensitively with the identifier, or the canonical query in a
\* canonical container code
TypedHits ==
  {i \in DOMAIN Its :
     \/ IsSubstr(lower(Cn), lower(Its[i].id))
     \/ \E k \in DOMAIN Its[i].containers : IsSubstr(Q, canon(Its[i].containers[k]))}

Key10Hits == {i \in DOMAIN Its : Len(Q10) = KeyLen /\ Owns10(Its[i], Q10)}

Lowest(I) == CHOOSE i \in I : \A j \in I : i <= j

IsExactAnswer(i) ==
  /\ resp.status = 200
  /\ resp.matchedBy = "exact"
  /\ resp.item = Its[i]
  /\ DOMAIN resp = {"status", "item", "summary", "matchedBy"}

TaggedExact == resp.status = 200 /\ resp.matchedBy = "exact"

TaggedKey10 == resp.status = 200 /\ resp.matchedBy = "key10"

\* C1 as stated: a shipment matches the exact tier iff the query as typed,
\* compared case-insensitively, is a substring of its identifier, or the
\* canonical query is a substring of one of its canonical container codes;
\* with a match the answer is the first matching shipment, tagged exact, and
\* nothing of a later tier; without one no answer is tagged exact.
C1_ExactTierTyped ==
  IsContainer =>
    IF TypedHits # {} THEN IsExactAnswer(Lowest(TypedHits)) ELSE ~TaggedExact

\* C1 amended: the same with the canonical query, lowercased, compared with
\* the lowercased identifier as stored (the identifier is not canonicalized).
C1_ExactTier ==
  IsContainer =>
    IF ExactHits # {} THEN IsExactAnswer(Lowest(ExactHits)) ELSE ~TaggedExact

\* an exact answer where the identifier (not a container code) decided, two
\* shipments match and the typed query has a character canon() removes
C1_Witness ==
  /\ IsContainer
  /\ TaggedExact
  /\ Cardinality(ExactHits) >= 2
  /\ Q # Cn
  /\ \A i \in ExactHits :
       \A k \in DOMAIN Its[i].containers : ~IsSubstr(Q, canon(Its[i].containers[k]))

\* C2: an answer tagged key10 is given only when no shipment matched the
\* exact tier and the query's key10 has exactly 10 characters, and its item
\* is the first shipment owning a code with that key10; a query whose key10
\* is shorter never gets an answer tagged key10.
C2_Key10Tier ==
  IsContainer =>
    /\ TaggedKey10 =>
         /\ ExactHits = {}
         /\ Len(Q10) = KeyLen
         /\ Key10Hits # {}
         /\ resp.item = Its[Lowest(Key10Hits)]
    /\ Len(Q10) < KeyLen => ~TaggedKey10

\* a key10 answer whose item is not the first shipment of the fleet and owns
\* the matching code as its second container
C2_Witness ==
  /\ IsContainer
  /\ TaggedKey10
  /\ Lowest(Key10Hits) > 1
  /\ key10(resp.item.containers[1]) # Q10

\* the container codes of the fleet that have the key10 of the query
SharedCodes ==
  UNION {{Its[i].containers[k] : k \in {k \in DOMAIN Its[i].containers :
                                         key10(Its[i].containers[k]) = Q10}} :
           i \in DOMAIN Its}

\* the query has the key10 of code c and another check digit (11th character)
WrongCheckDigit(c) ==
  /\ Len(Q10) = KeyLen
  /\ key10(c) = Q10
  /\ Len(Q) > KeyLen
  /\ Len(canon(c)) > KeyLen
  /\ Q[KeyLen + 1] # canon(c)[KeyLen + 1]

AlternatesWellFormed ==
  /\ \A c \in DOMAIN resp.alternates : resp.alternates[c] = 1
  /\ Cardinality(DOMAIN resp.alternates) <= MaxAlternates
  /\ DOMAIN resp.alternates \subseteq
       UNION {{Its[i].containers[k] : k \in DOMAIN Its[i].containers} : i \in Key10Hits}
  /\ \A c \in DOMAIN resp.alternates : key10(c) = Q10

\* C3 as stated: whenever the query has the key10 of a container code C and
\* another check digit, the answer is the shipment owning C, tagged key10,
\* with C among the alternates, which are distinct, at most 10 and all codes
\* of collected shipments with the key10 of the query.
C3_CheckDigitAlways ==
  IsContainer =>
    \A i \in DOMAIN Its : \A k \in DOMAIN Its[i].containers :
       WrongCheckDigit(Its[i].containers[k]) =>
         /\ TaggedKey10
         /\ resp.item = Its[i]
         /\ Its[i].containers[k] \in DOMAIN resp.alternates
         /\ AlternatesWellFormed

\* C3 amended: the same provided no shipment matches at the exact tier; the
\* item is then the first shipment in input order owning a code with that
\* key10 (the owner of C when no earlier shipment owns one), and C is among
\* the alternates when at most 10 distinct codes share the key10 (of more,
\* some 10 are listed).
C3_CheckDigit ==
  IsContainer =>
    \A i \in DOMAIN Its : \A k \in DOMAIN Its[i].containers :
       (WrongCheckDigit(Its[i].containers[k]) /\ ExactHits = {}) =>
         /\ TaggedKey10
         /\ resp.item = Its[Lowest(Key10Hits)]
         /\ (\A j \in 1..(i - 1) : ~Owns10(Its[j], Q10)) => resp.item = Its[i]
         /\ Cardinality(SharedCodes) <= MaxAlternates =>
              Its[i].containers[k] \in DOMAIN resp.alternates
         /\ Cardinality(DOMAIN resp.alternates) =
              Min(MaxAlternates, Cardinality(SharedCodes))
         /\ AlternatesWellFormed

\* a key10 answer to a query with a wrong check digit, the code being
\* carried by two shipments
C3_Witness ==
  /\ IsContainer
  /\ TaggedKey10
  /\ \E i \in DOMAIN Its : \E k \in DOMAIN Its[i].containers :
       /\ WrongCheckDigit(Its[i].containers[k])
       /\ \E j \in DOMAIN Its : j # i /\ Its[i].containers[k] \in Range(Its[j].containers)

\* the shipments the suggestion tier collects, and the list it returns: the
\* first occurrence of each identifier, in input order, the first 10 of them
SuggestHits ==
  {i \in DOMAIN Its :
     \/ IsSubstr(Q, canon(Its[i].id))
     \/ \E k \in DOMAIN Its[i].containers :
          LET c == canon(Its[i].containers[k])
          IN  Len(Q) <= Len(c) /\ SubSeq(c, 1, Len(Q)) = Q}

FirstOfId == {i \in SuggestHits : \A j \in SuggestHits : j < i => Its[j].id # Its[i].id}

Expected ==
  LET rank(i) == Cardinality({j \in FirstOfId : j <= i})
      n       == Min(MaxSuggestions, Cardinality(FirstOfId))
  IN  [r \in 1..n |->
         LET i == CHOOSE i \in FirstOfId : rank(i) = r
         IN  [id |-> Its[i].id, vessel |-> Its[i].vessel,
              sample |-> Its[i].containers[1]]]

HasSuggestions == "suggestions" \in DOMAIN resp

\* C4: suggestions are returned only when the exact and key10 tiers matched
\* nothing and the canonical query has at least 4 characters; the list is
\* then one stub per collected shipment, in input order, with distinct ids
\* and at most 10 entries, in a 404 answer; a query of fewer than 4
\* canonical characters without an exact match gets the plain Not found.
C4_Suggestions ==
  IsContainer =>
    /\ HasSuggestions =>
         /\ resp.status = 404
         /\ DOMAIN resp = {"status", "error", "suggestions"}
         /\ ExactHits = {} /\ Key10Hits = {}
         /\ Len(Q) >= SuggestMinLen
         /\ resp.suggestions = Expected
         /\ Len(resp.suggestions) <= MaxSuggestions
         /\ \A a, b \in DOMAIN resp.suggestions :
              a # b => resp.suggestions[a].id # resp.suggestions[b].id
    /\ (ExactHits = {} /\ Key10Hits = {} /\ Len(Q) >= SuggestMinLen
          /\ SuggestHits # {}) => HasSuggestions
    /\ (Len(Q) < SuggestMinLen /\ ExactHits = {}) =>
         resp = [status |-> 404, error |-> "Not found"]

\* suggestions where two collected shipments share an identifier
C4_Witness ==
  /\ IsContainer
  /\ HasSuggestions
  /\ \E i, j \in SuggestHits : i # j /\ Its[i].id = Its[j].id

\* the cap: more than 10 shipments collected, 10 suggested
C4_WitnessCap ==
  /\ IsContainer
  /\ HasSuggestions
  /\ Cardinality(FirstOfId) > MaxSuggestions
  /\ Len(resp.suggestions) = MaxSuggestions

\* C10: with a non-empty fleet, a query whose canonical form is empty is
\* answered at the exact tier with the first shipment of the fleet.
C10_EmptyCanonical ==
  (IsContainer /\ canon(req.cn) = <<>> /\ Its # <<>>) => IsExactAnswer(1)

\* a query of punctuation only, answered with a shipment whose identifier
\* does not contain it
C10_Witness ==
  /\ IsContainer
  /\ req.cn # <<>> /\ canon(req.cn) = <<>>
  /\ Len(Its) >= 2
  /\ TaggedExact
  /\ ~IsSubstr(req.cn, resp.item.id)
\* C5 as stated: for a container query (GET /api/container, POST
\* /api/summary?cn=) that no shipment matches at the exact or the key10
\* tier, the answer is an error result, never a success with count 0.
C5_NoMatchIsFailure ==
  ((IsContainer \/ IsSummaryCn) /\ ExactHits = {} /\ Key10Hits = {}) =>
    /\ resp.status = 404
    /\ "error" \in DOMAIN resp
    /\ ~("count" \in DOMAIN resp /\ resp.count = 0)

\* a risk_band result: the score within [0, 1] and the band its own
ScoreBanded(r) ==
  LET n == r.score.num
      d == r.score.den
  IN  /\ d > 0
      /\ 0 <= n /\ n <= d
      /\ r.band \in {"LOW", "MED", "HIGH"}
      /\ r.band = "HIGH" <=> 100 * n >= 66 * d
      /\ r.band = "MED" <=> (100 * n >= 33 * d /\ 100 * n < 66 * d)
      /\ r.band = "LOW" <=> 100 * n < 33 * d

\* C6: whatever risk_band receives (a wind speed, which is not negative, and
\* a base risk within [0, 1]), the score is within [0, 1] and the band is
\* HIGH from 0.66, MED from 0.33 to below 0.66, LOW below 0.33.
C6_RiskBand ==
  /\ req.op = "risk_band" => ScoreBanded(resp)
  /\ (req.op = "predict-eta" /\ resp.status = 200) => ScoreBanded(resp.risk)

\* a score of exactly 0.66 banded HIGH, exactly 0.33 banded MED, and a score
\* cut to 1
C6_WitnessHigh ==
  /\ req.op = "risk_band"
  /\ 100 * resp.score.num = 66 * resp.score.den
  /\ resp.band = "HIGH"

C6_WitnessMed ==
  /\ req.op = "risk_band"
  /\ 100 * resp.score.num = 33 * resp.score.den
  /\ resp.band = "MED"

C6_WitnessCapped ==
  /\ req.op = "risk_band"
  /\ resp.score.num = resp.score.den
  /\ 250 * (req.pred_hours - req.planned_hours) > 500 * req.planned_hours
  /\ req.planned_hours >= 100

WindSupplied(w) == w.kind = "body" /\ w.current = "object" /\ w.wind = "number"

\* C7 as stated: whatever the weather call ends in, the wind used is a
\* number, the live value when one was supplied and 5.0 otherwise, and the
\* request completes with a prediction.
C7_WindFallback ==
  req.op = "predict-eta" =>
    /\ resp.status = 200
    /\ resp.windMps = Number(IF WindSupplied(req.weather)
                               THEN req.weather.value ELSE WindFallback)

IsAggregate == req.op = "summary" /\ ~Given(req.params, "cn")

\* the shipments the filter q keeps (all of them without q)
Kept ==
  IF Given(req.params, "q")
    THEN SelectSeq(Its, LAMBDA it :
           \/ IsSubstr(lower(req.params.q), lower(it.id))
           \/ IsSubstr(lower(req.params.q), lower(it.vessel))
           \/ \E k \in DOMAIN it.containers :
                IsSubstr(lower(req.params.q), lower(it.containers[k])))
    ELSE Its

OnTimeCount == Cardinality({i \in DOMAIN Kept : Kept[i].metrics.onTime})

\* the first shipment of the largest predHours
WorstIndex ==
  CHOOSE i \in DOMAIN Kept :
    /\ \A j \in DOMAIN Kept : Kept[j].metrics.predHours <= Kept[i].metrics.predHours
    /\ \A j \in 1..(i - 1) : Kept[j].metrics.predHours < Kept[i].metrics.predHours

\* C8 as stated: for an empty (or wholly filtered-out) set the summary is
\* the fixed text with count 0, reached without a division; for a non-empty
\* set the count is its size, the percentage is round(100 * on / n) and the
\* worst shipment is the first of the largest predHours.
C8_Aggregate ==
  IsAggregate =>
    IF Kept = <<>>
      THEN resp = [status |-> 200,
                   summary |-> [text |-> "No shipments matched your filter."],
                   count |-> 0, mode |-> "filter"]
      ELSE /\ resp.status = 200
           /\ resp.count = Len(Kept)
           /\ resp.summary.n = Len(Kept)
           /\ resp.summary.on = OnTimeCount
           /\ resp.summary.pct = ExactRound(100 * OnTimeCount, Len(Kept))
           /\ resp.summary.worstId = Kept[WorstIndex].id
           /\ resp.summary.worstVessel = Kept[WorstIndex].vessel
           /\ resp.summary.worstHours = Fmt1(Kept[WorstIndex].metrics.predHours)

\* C9: for a non-empty cn, POST /api/summary?cn= answers in mode single with
\* one shipment exactly when GET /api/container?cn= answers exact, in mode
\* single-key10 exactly when it answers key10, both times with the sentence
\* of the item GET returns, and with count 0 exactly when GET answers 404.
C9_EntryPointsAgree ==
  IsSummaryCn =>
    \A c \in api_container(req.params.cn) :
       /\ (resp.mode = "single" /\ resp.count = 1) <=>
            (c.status = 200 /\ c.matchedBy = "exact")
       /\ resp.mode = "single-key10" <=> (c.status = 200 /\ c.matchedBy = "key10")
       /\ c.status = 200 =>
            /\ resp.count = 1
            /\ resp.summary = item_summary(c.item)
            /\ resp.summary = c.summary
       /\ resp.count = 0 <=> c.status = 404

\* a per-item summary by key10 of a shipment that is not the first
C9_Witness ==
  /\ IsSummaryCn
  /\ resp.mode = "single-key10"
  /\ Lowest(Key10Hits) > 1
  /\ resp.summary.id = Its[Lowest(Key10Hits)].id
  /\ resp.summary.id # Its[1].id
====
